---- MODULE Spec2Model ----
(***************************************************************************)
(* Model of the repsys dataset partitioning engine (repsys/dataset.py)     *)
(* and ranking evaluation engine (repsys/evaluator.py).                    *)
(*                                                                         *)
(* Identifiers are strings, modelled as sequences of one-character         *)
(* strings.  A table (pandas DataFrame with columns user, item, value) is  *)
(* a sequence of records.  Proportions are floating point numbers, counted *)
(* in units of 1/PropUnit; the multiples of 1/PropDen are the numbers a    *)
(* float next to 1 can hold, and their products with counts are exact.     *)
(* The global random generator is a state that set_seed resets and every   *)
(* draw advances.                                                          *)
(***************************************************************************)
EXTENDS Integers, Sequences, FiniteSets, TLC

VARIABLES interactions, config, rng, runs, splits, items, item_index,
          archive, last, ix, ev

vars == <<interactions, config, rng, runs, splits, items, item_index,
          archive, last, ix, ev>>

\* ------------------------------------------------------------------ bounds
NumUsers == 5
MaxRows == 6
RngPeriod == 2
PropDen == 4
PropUnit == PropDen * PropDen
PartUsers == 3
MaxCalls == 3
MaxIdLen == 2
MaxIds == 2
NumCols == 3
MaxScore == 1
MaxRating == 2

\* ------------------------------------------------------- generic helpers
Range(s) == {s[i] : i \in DOMAIN s}

Min2(a, b) == IF a <= b THEN a ELSE b

RECURSIVE Flatten(_)
Flatten(ss) == IF ss = <<>> THEN <<>> ELSE Head(ss) \o Flatten(Tail(ss))

\* rows of a table that satisfy a row mask, in table order (df[mask])
RECURSIVE Mask(_, _)
Mask(tp, keep) ==
    IF tp = <<>> THEN <<>>
    ELSE (IF keep[1] THEN <<tp[1]>> ELSE <<>>)
         \o Mask(Tail(tp), [i \in 1..(Len(tp) - 1) |-> keep[i + 1]])

Where(tp, P(_)) == SelectSeq(tp, P)

\* character order used to sort identifiers
CharCode(c) ==
    CASE c = "\n" -> 10 [] c = " " -> 32
      [] c = "0" -> 48 [] c = "1" -> 49 [] c = "2" -> 50 [] c = "3" -> 51
      [] c = "4" -> 52 [] c = "5" -> 53 [] c = "6" -> 54 [] c = "7" -> 55
      [] c = "8" -> 56 [] c = "9" -> 57
      [] c = "a" -> 97 [] c = "b" -> 98 [] c = "c" -> 99 [] c = "d" -> 100
      [] OTHER -> 127

RECURSIVE StrLess(_, _)
StrLess(a, b) ==
    IF b = <<>> THEN FALSE
    ELSE IF a = <<>> THEN TRUE
    ELSE IF a[1] # b[1] THEN CharCode(a[1]) < CharCode(b[1])
    ELSE StrLess(Tail(a), Tail(b))

\* the elements of a set of identifiers in ascending order (groupby index)
RECURSIVE SortedIds(_)
SortedIds(S) ==
    IF S = {} THEN <<>>
    ELSE LET m == CHOOSE x \in S : \A y \in S \ {x} : StrLess(x, y)
         IN  <<m>> \o SortedIds(S \ {m})

\* pd.unique: distinct values in order of first occurrence
RECURSIVE unique(_)
unique(s) ==
    IF s = <<>> THEN <<>>
    ELSE LET r == unique(SubSeq(s, 1, Len(s) - 1))
             x == s[Len(s)]
         IN  IF x \in Range(r) THEN r ELSE Append(r, x)

Column(tp, col) == [i \in 1..Len(tp) |-> tp[i][col]]

\* ------------------------------------------------- the random generator
\* The global numpy generator: a state, reset by set_seed, advanced by each
\* draw.  The k-th permutation of 0..n-1 in lexicographic order stands for
\* the stream the generator yields in state k.
RngStates == 0..(RngPeriod - 1)

RECURSIVE Factorial(_)
Factorial(n) == IF n <= 1 THEN 1 ELSE n * Factorial(n - 1)

RemoveAt(s, i) == SubSeq(s, 1, i - 1) \o SubSeq(s, i + 1, Len(s))

RECURSIVE NthPerm(_, _)
NthPerm(k, pool) ==
    IF pool = <<>> THEN <<>>
    ELSE LET f == Factorial(Len(pool) - 1)
             i == (k \div f) + 1
         IN  <<pool[i]>> \o NthPerm(k % f, RemoveAt(pool, i))

set_seed(seed) == seed % RngPeriod

Advance(st) == (st + 1) % RngPeriod

\* np.random.permutation(n) in generator state st
permutation(st, n) == NthPerm(st % Factorial(n), [i \in 1..n |-> i - 1])

\* np.random.choice(n, size, replace=False) in generator state st
choice(st, n, size) == SubSeq(permutation(st, n), 1, size)

\* ----------------------------------------------------- DatasetSplitter
get_count(df, col) ==
    [x \in Range(Column(df, col)) |->
        Cardinality({i \in 1..Len(df) : df[i][col] = x})]

\* the filter with the users counted before the item filter
filter_triplets_counts_first(cfg, tp) ==
    LET item_count == get_count(tp, "item")
        user_count == get_count(tp, "user")
        tp1 == IF cfg.min_item_interacts > 0
               THEN Where(tp, LAMBDA t :
                        item_count[t.item] >= cfg.min_item_interacts)
               ELSE tp
        tp2 == IF cfg.min_user_interacts > 0
               THEN Where(tp1, LAMBDA t :
                        user_count[t.user] >= cfg.min_user_interacts)
               ELSE tp1
    IN  [tp |-> tp2,
         user_count |-> SortedIds(Range(Column(tp2, "user"))),
         item_count |-> SortedIds(Range(Column(tp2, "item")))]

\* DatasetSplitter._filter_triplets: (tp, user_count.index, item_count.index)
filter_triplets(cfg, tp) ==
    LET item_count == get_count(tp, "item")
        tp1 == IF cfg.min_item_interacts > 0
               THEN Where(tp, LAMBDA t :
                        item_count[t.item] >= cfg.min_item_interacts)
               ELSE tp
        user_count == get_count(tp1, "user")
        tp2 == IF cfg.min_user_interacts > 0
               THEN Where(tp1, LAMBDA t :
                        user_count[t.user] >= cfg.min_user_interacts)
               ELSE tp1
    IN  [tp |-> tp2,
         user_count |-> SortedIds(Range(Column(tp2, "user"))),
         item_count |-> SortedIds(Range(Column(tp2, "item")))]

\* the holdout size rounded up
holdout_size_rounded_up(cfg, n_items) ==
    (cfg.test_holdout_prop * n_items + PropUnit - 1) \div PropUnit

\* int(test_holdout_prop * n_items)
holdout_size(cfg, n_items) == (cfg.test_holdout_prop * n_items) \div PropUnit

\* the iteration without its call of set_seed: the draw is made in the
\* state st the generator is in
split_group_unseeded(cfg, group, st) ==
    LET n_items == Len(group)
        picked == Range(choice(st, n_items, holdout_size(cfg, n_items)))
        idx == [i \in 1..n_items |-> (i - 1) \in picked]
    IN  [tr |-> Mask(group, [i \in 1..n_items |-> ~idx[i]]),
         te |-> Mask(group, idx)]

\* one iteration of the loop of _split_train_test: the rows of one user,
\* with the generator in state st when the iteration starts
split_group(cfg, group, st) ==
    LET n_items == Len(group)
        picked == Range(choice(set_seed(cfg.seed), n_items,
                               holdout_size(cfg, n_items)))
        idx == [i \in 1..n_items |-> (i - 1) \in picked]
    IN  [tr |-> Mask(group, [i \in 1..n_items |-> ~idx[i]]),
         te |-> Mask(group, idx)]

\* pd.concat raises ValueError on an empty list: raised is TRUE then
split_train_test(cfg, data, st) ==
    LET users == SortedIds(Range(Column(data, "user")))
        parts == [g \in 1..Len(users) |->
                    split_group(cfg,
                        Where(data, LAMBDA t : t.user = users[g]),
                        IF g = 1 THEN st ELSE Advance(set_seed(cfg.seed)))]
    IN  [raised |-> users = <<>>,
         tr |-> Flatten([g \in 1..Len(users) |-> parts[g].tr]),
         te |-> Flatten([g \in 1..Len(users) |-> parts[g].te])]

\* the filter without the threshold filter applied again
filter_interact_data_once(cfg, interact_data, users, items_in_train) ==
    LET by_users == Where(interact_data, LAMBDA t : t.user \in Range(users))
        by_items == Where(by_users, LAMBDA t : t.item \in Range(items_in_train))
    IN  [interacts |-> by_items, users |-> users]

\* the filter without the restriction to the items of the training users
filter_interact_data_all_items(cfg, interact_data, users, items_in_train) ==
    LET by_users == Where(interact_data, LAMBDA t : t.user \in Range(users))
        f == filter_triplets(cfg, by_users)
    IN  [interacts |-> f.tp, users |-> f.user_count]

filter_interact_data(cfg, interact_data, users, items_in_train) ==
    LET by_users == Where(interact_data, LAMBDA t : t.user \in Range(users))
        by_items == Where(by_users, LAMBDA t : t.item \in Range(items_in_train))
        f == filter_triplets(cfg, by_items)
    IN  [interacts |-> f.tp, users |-> f.user_count]

\* Python round(): round half to even, of the exact quotient num / den
Round(num, den) ==
    LET fl == num \div den
        r == num % den
    IN  IF 2 * r < den THEN fl
        ELSE IF 2 * r > den THEN fl + 1
        ELSE IF fl % 2 = 0 THEN fl ELSE fl + 1

\* the float 1 - p: the difference rounded to the nearest number a float
\* next to 1 can hold, so a p below half that spacing is lost
one_minus(p) == PropDen * Round(PropUnit - p, PropDen)

\* round(n_users * holdout_users_portion), holdout_users_portion being
\* (1 - train_split_prop) / 2
n_holdout_users(cfg, n_users) ==
    Round(n_users * one_minus(cfg.train_split_prop), 2 * PropUnit)

\* the shuffle without the call of set_seed before it
shuffle_unseeded(cfg, user_index, st) ==
    LET idx_perm == permutation(st, Len(user_index))
    IN  [i \in 1..Len(user_index) |-> user_index[idx_perm[i] + 1]]

\* set_seed(self.seed); user_index[np.random.permutation(user_index.size)],
\* with the generator in state st before
shuffle(cfg, user_index, st) ==
    LET idx_perm == permutation(set_seed(cfg.seed), Len(user_index))
    IN  [i \in 1..Len(user_index) |-> user_index[idx_perm[i] + 1]]

\* s[start:stop] of Python: a negative bound counts from the end, and the
\* bounds are cut to the length
Slice(s, start, stop) ==
    LET n == Len(s)
        bound(i) == IF i < 0 THEN (IF i + n < 0 THEN 0 ELSE i + n)
                    ELSE IF i > n THEN n ELSE i
    IN  SubSeq(s, bound(start) + 1, bound(stop))

\* the slices with the test slice starting one user early
user_blocks_overlap(user_index, h) ==
    LET n_users == Len(user_index)
    IN  [tr |-> Slice(user_index, 0, n_users - 2 * h),
         vad |-> Slice(user_index, n_users - 2 * h, n_users - h),
         test |-> Slice(user_index, n_users - h - 1, n_users)]

\* the three slices of the shuffled users
user_blocks(user_index, h) ==
    LET n_users == Len(user_index)
    IN  [tr |-> Slice(user_index, 0, n_users - 2 * h),
         vad |-> Slice(user_index, n_users - 2 * h, n_users - h),
         test |-> Slice(user_index, n_users - h, n_users)]

\* the return statement of split, reached when no _split_train_test raised
split_return(tr_users, train_data, vad, vad_tt, test, test_tt) ==
    IF vad_tt.raised \/ test_tt.raised
    THEN [raised |-> TRUE]
    ELSE [raised |-> FALSE,
          train |-> [users |-> tr_users, tr |-> train_data],
          validation |-> [users |-> vad.users, tr |-> vad_tt.tr,
                          te |-> vad_tt.te],
          test |-> [users |-> test.users, tr |-> test_tt.tr,
                    te |-> test_tt.te]]

\* split from the training table on: the items of the training users, the
\* filtered validation and test tables and their train / holdout split
split_partitions(cfg, tp, tr_users, vad_users, test_users) ==
    LET train_data == Where(tp, LAMBDA t : t.user \in Range(tr_users))
        items_in_train == unique(Column(train_data, "item"))
        st1 == Advance(set_seed(cfg.seed))
        vad == filter_interact_data(cfg, tp, vad_users, items_in_train)
        test == filter_interact_data(cfg, tp, test_users, items_in_train)
    IN  split_return(tr_users, train_data,
                     vad, split_train_test(cfg, vad.interacts, st1),
                     test, split_train_test(cfg, test.interacts, st1))

\* DatasetSplitter.split with the generator in state st at the call
split(cfg, interact_data, st) ==
    LET f == filter_triplets(cfg, interact_data)
        user_index == shuffle(cfg, f.user_count, st)
        blocks == user_blocks(user_index,
                              n_holdout_users(cfg, Len(user_index)))
    IN  split_partitions(cfg, f.tp, blocks.tr, blocks.vad, blocks.test)

\* ------------------------------------------------- index and matrices
\* Python's None, and a value that is present, for fields that can be None
None == [none |-> TRUE]
Some(x) == [val |-> x]
IsNone(x) == x = None

\* frozenbidict((uid, i) for (i, uid) in enumerate(ids)): a repeated key
\* replaces the earlier pair, as in a dict
\* an index is its keys in insertion order and the position of each key
build_index(ids) ==
    [keys |-> unique(ids),
     pos |-> [x \in Range(ids) |->
        (CHOOSE i \in DOMAIN ids :
            ids[i] = x /\ \A j \in DOMAIN ids : ids[j] = x => j <= i) - 1]]

\* frozenbidict.get(key) and frozenbidict.inverse.get(position)
index_get(index, key) ==
    IF key \in DOMAIN index.pos THEN Some(index.pos[key]) ELSE None

inverse_get(index, position) ==
    IF \E key \in DOMAIN index.pos : index.pos[key] = position
    THEN Some(CHOOSE key \in DOMAIN index.pos : index.pos[key] = position)
    ELSE None

\* frozenbidict[key]: a key that is not in the index raises KeyError
index_getitem(index, key) ==
    IF key \in DOMAIN index.pos
    THEN [raised |-> FALSE, val |-> index.pos[key]]
    ELSE [raised |-> TRUE, error |-> "KeyError"]

\* df['user'].apply(lambda x: user_index[x]), same for item
reindex_data(df, user_index, item_idx) ==
    IF \E i \in 1..Len(df) :
          \/ index_getitem(user_index, df[i].user).raised
          \/ index_getitem(item_idx, df[i].item).raised
    THEN [raised |-> TRUE, error |-> "KeyError"]
    ELSE [raised |-> FALSE, error |-> "",
          df |-> [i \in 1..Len(df) |->
                    [user |-> index_getitem(user_index, df[i].user).val,
                     item |-> index_getitem(item_idx, df[i].item).val,
                     value |-> df[i].value]]]

RECURSIVE SumValues(_)
SumValues(df) == IF df = <<>> THEN 0 ELSE df[1].value + SumValues(Tail(df))

MaxOf(S) == CHOOSE m \in S : \A x \in S : x <= m

\* csr_matrix((values, (rows, cols)), shape=(n_users, n_items)): entries of
\* the same cell are summed; an empty table has no maximum (n_users is NaN)
\* and a column outside the shape is rejected
df_to_matrix(df, n_items) ==
    IF df = <<>> THEN [raised |-> TRUE, error |-> "empty table"]
    ELSE IF \E i \in 1..Len(df) : df[i].item >= n_items
    THEN [raised |-> TRUE, error |-> "column index exceeds matrix dimensions"]
    ELSE LET n_users == MaxOf(Range(Column(df, "user"))) + 1
             stored == {<<df[i].user, df[i].item>> : i \in 1..Len(df)}
         IN  [raised |-> FALSE,
              shape |-> <<n_users, n_items>>,
              data |-> [c \in stored |->
                  SumValues(Where(df, LAMBDA t : <<t.user, t.item>> = c))]]

\* matrix.tocoo() as a table: one row per stored cell, row-major
RECURSIVE CellRows(_, _)
CellRows(m, cells) ==
    IF cells = {} THEN <<>>
    ELSE LET c == CHOOSE x \in cells : \A y \in cells :
                      x[1] < y[1] \/ (x[1] = y[1] /\ x[2] <= y[2])
         IN  <<[user |-> c[1], item |-> c[2], value |-> m.data[c]]>>
             \o CellRows(m, cells \ {c})

matrix_to_df(m) == CellRows(m, DOMAIN m.data)

NonZero(m) == {c \in DOMAIN m.data : m.data[c] # 0}

\* training_matrix + holdout_matrix
MatrixSum(a, b) ==
    [shape |-> a.shape,
     data |-> [c \in DOMAIN a.data \cup DOMAIN b.data |->
         (IF c \in DOMAIN a.data THEN a.data[c] ELSE 0)
       + (IF c \in DOMAIN b.data THEN b.data[c] ELSE 0)]]

\* Split.__init__; the sum of matrices of different shapes raises
NewSplit(name, training_matrix, user_index, holdout_matrix) ==
    IF IsNone(holdout_matrix)
    THEN [raised |-> FALSE, name |-> name,
          training_matrix |-> training_matrix, holdout_matrix |-> None,
          user_index |-> user_index, complete_matrix |-> training_matrix]
    ELSE IF training_matrix.shape # holdout_matrix.shape
    THEN [raised |-> TRUE, error |-> "inconsistent shapes"]
    ELSE [raised |-> FALSE, name |-> name,
          training_matrix |-> training_matrix,
          holdout_matrix |-> holdout_matrix,
          user_index |-> user_index,
          complete_matrix |-> MatrixSum(training_matrix, holdout_matrix)]

\* one Split(...) statement of _update_data, its arguments evaluated first
MakeSplit(name, part, n_items, with_holdout) ==
    LET tm == df_to_matrix(part.tr, n_items)
        hm == IF IsNone(part.te)
              THEN [raised |-> TRUE, error |-> "holdout table is None"]
              ELSE df_to_matrix(part.te.val, n_items)
    IN  IF tm.raised THEN tm
        ELSE IF ~with_holdout
        THEN NewSplit(name, [shape |-> tm.shape, data |-> tm.data],
                      part.users, None)
        ELSE IF hm.raised THEN hm
        ELSE NewSplit(name, [shape |-> tm.shape, data |-> tm.data],
                      part.users, [shape |-> hm.shape, data |-> hm.data])

\* the assignments of _update_data in order, s1, s2 and s3 being the
\* results of its Split(...) statements: it stops at the first one that
\* raised; items and item_index are set last
update_data_assign(old, s1, s2, s3, new_items, new_index) ==
    LET raised == s1.raised \/ s2.raised \/ s3.raised
    IN  [raised |-> raised,
         error |-> IF s1.raised THEN s1.error
                   ELSE IF s2.raised THEN s2.error
                   ELSE IF s3.raised THEN s3.error ELSE "",
         splits |->
            [train |-> IF s1.raised THEN old.splits.train ELSE s1,
             validation |-> IF s1.raised \/ s2.raised
                            THEN old.splits.validation ELSE s2,
             test |-> IF raised THEN old.splits.test ELSE s3],
         items |-> IF raised THEN old.items ELSE Some(new_items),
         item_index |-> IF raised THEN old.item_index ELSE Some(new_index)]

\* Dataset._update_data: the three Split(...) statements
update_data(old, parts, new_items, new_index) ==
    update_data_assign(old,
        MakeSplit("train", parts.train, Len(new_items), FALSE),
        MakeSplit("validation", parts.validation, Len(new_items), TRUE),
        MakeSplit("test", parts.test, Len(new_items), TRUE),
        new_items, new_index)

\* ------------------------------------------------------------ Evaluator
\* what bn.argpartition(-row, k) may return for one row: an order of the
\* columns in which the entry at place k + 1 is in its sorted place, no
\* larger entry of -row before it and no smaller one after it
argpartitions(row, k) ==
    {idx \in Permutations(1..Len(row)) :
        /\ \A i \in 1..k : -row[idx[i]] <= -row[idx[k + 1]]
        /\ \A i \in (k + 2)..Len(row) : -row[idx[i]] >= -row[idx[k + 1]]}

\* recall with the hits divided by k
recall_divides_by_k(X_pred, heldout_batch, k, idx) ==
    [u \in 1..Len(X_pred) |->
        LET X_pred_binary == {idx[u][i] : i \in 1..k}
            X_true_binary == {c \in 1..Len(heldout_batch[u]) :
                                 heldout_batch[u][c] > 0}
        IN  [num |-> Cardinality(X_true_binary \cap X_pred_binary),
             den |-> k]]

\* Evaluator.recall, idx being the result of bn.argpartition; a per-user
\* value is the quotient num / den, not a number when den = 0
recall(X_pred, heldout_batch, k, idx) ==
    [u \in 1..Len(X_pred) |->
        LET X_pred_binary == {idx[u][i] : i \in 1..k}
            X_true_binary == {c \in 1..Len(heldout_batch[u]) :
                                 heldout_batch[u][c] > 0}
        IN  [num |-> Cardinality(X_true_binary \cap X_pred_binary),
             den |-> Min2(k, Cardinality(X_true_binary))]]

\* ---------------------------------------------------------- persistence
DigitChar(d) == <<"0", "1", "2", "3", "4", "5", "6", "7", "8", "9">>[d + 1]

DigitVal(c) == CharCode(c) - 48

\* "%d": the decimal digits of a non-negative integer
RECURSIVE FormatInt(_)
FormatInt(n) ==
    IF n < 10 THEN <<DigitChar(n)>>
    ELSE Append(FormatInt(n \div 10), DigitChar(n % 10))

RECURSIVE ParseInt(_)
ParseInt(str) ==
    IF Len(str) = 1 THEN DigitVal(str[1])
    ELSE 10 * ParseInt(SubSeq(str, 1, Len(str) - 1)) + DigitVal(str[Len(str)])

\* a float64 with no fraction is written with ".0" and read back
FormatFloat(v) == FormatInt(v) \o <<".", "0">>

ParseFloat(str) ==
    LET dot == CHOOSE i \in DOMAIN str : str[i] = "."
    IN  ParseInt(SubSeq(str, 1, dot - 1))

\* DataFrame.to_csv(index=False) / pd.read_csv of a triplet table
to_csv(df) ==
    [i \in 1..Len(df) |->
        [user |-> FormatInt(df[i].user), item |-> FormatInt(df[i].item),
         value |-> FormatFloat(df[i].value)]]

\* reading with the first two columns taken in the wrong order
read_csv_swapped(csv) ==
    [i \in 1..Len(csv) |->
        [user |-> ParseInt(csv[i].item), item |-> ParseInt(csv[i].user),
         value |-> ParseFloat(csv[i].value)]]

read_csv(csv) ==
    [i \in 1..Len(csv) |->
        [user |-> ParseInt(csv[i].user), item |-> ParseInt(csv[i].item),
         value |-> ParseFloat(csv[i].value)]]

Whitespace == {" ", "\n"}

\* str.strip()
RECURSIVE LStrip(_)
LStrip(str) ==
    IF str # <<>> /\ str[1] \in Whitespace THEN LStrip(Tail(str)) ELSE str

RECURSIVE RStrip(_)
RStrip(str) ==
    IF str # <<>> /\ str[Len(str)] \in Whitespace
    THEN RStrip(SubSeq(str, 1, Len(str) - 1)) ELSE str

strip(str) == RStrip(LStrip(str))

\* the lines of a text file, each with its line terminator
RECURSIVE Lines(_)
Lines(text) ==
    IF text = <<>> THEN <<>>
    ELSE IF \E i \in DOMAIN text : text[i] = "\n"
    THEN LET e == CHOOSE i \in DOMAIN text :
                    text[i] = "\n" /\ \A j \in 1..(i - 1) : text[j] # "\n"
         IN  <<SubSeq(text, 1, e)>> \o Lines(SubSeq(text, e + 1, Len(text)))
    ELSE <<text>>

\* f.write("%s\n" % sid) for every key
save_index(index_dict) ==
    Flatten([i \in 1..Len(index_dict.keys) |->
                Append(index_dict.keys[i], "\n")])

\* frozenbidict({line.strip(): i for i, line in enumerate(f)})
load_index(text) ==
    LET lines == Lines(text)
    IN  build_index([i \in 1..Len(lines) |-> strip(lines[i])])

save_split(sp) ==
    [train_csv |-> Some(to_csv(matrix_to_df(sp.training_matrix))),
     holdout_csv |-> IF IsNone(sp.holdout_matrix) THEN None
                     ELSE Some(to_csv(matrix_to_df(sp.holdout_matrix))),
     users_txt |-> Some(save_index(sp.user_index))]

\* load_split that also opens the holdout file without looking for it
load_split_needs_holdout(files) ==
    IF IsNone(files.train_csv) \/ IsNone(files.users_txt)
          \/ IsNone(files.holdout_csv)
    THEN [raised |-> TRUE]
    ELSE [raised |-> FALSE,
          users |-> load_index(files.users_txt.val),
          tr |-> read_csv(files.train_csv.val),
          te |-> Some(read_csv(files.holdout_csv.val))]

\* (user_index, training_data, holdout_data); raises on a missing file
\* other than the holdout file
load_split(files) ==
    IF IsNone(files.train_csv) \/ IsNone(files.users_txt)
    THEN [raised |-> TRUE]
    ELSE [raised |-> FALSE,
          users |-> load_index(files.users_txt.val),
          tr |-> read_csv(files.train_csv.val),
          te |-> IF IsNone(files.holdout_csv) THEN None
                 ELSE Some(read_csv(files.holdout_csv.val))]

\* Dataset.save: the files zipped, or None when a step raised
save(self) ==
    IF \E n \in DOMAIN self.splits : IsNone(self.splits[n])
    THEN None
    ELSE Some([train |-> save_split(self.splits.train),
               validation |-> save_split(self.splits.validation),
               test |-> save_split(self.splits.test),
               items_csv |-> self.items.val,
               items_txt |-> save_index(self.item_index.val)])

Part(p) == [users |-> p.users, tr |-> p.tr, te |-> p.te]

\* Dataset.prepare after the call of splitter.split, which returned s (or
\* raised); catalogue is what load_items returned, rows [label, id]
prepare(old, s, catalogue) ==
    LET item_ids == unique(Column(s.train.tr, "item"))
        idx == build_index(item_ids)
        train_user_index == build_index(s.train.users)
        vad_user_index == build_index(s.validation.users)
        test_user_index == build_index(s.test.users)
        kept == Where(catalogue, LAMBDA r : r.label \in Range(item_ids))
        train_data == reindex_data(s.train.tr, train_user_index, idx)
        vad_train_data == reindex_data(s.validation.tr, vad_user_index, idx)
        vad_holdout_data == reindex_data(s.validation.te, vad_user_index, idx)
        test_train_data == reindex_data(s.test.tr, test_user_index, idx)
        test_holdout_data == reindex_data(s.test.te, test_user_index, idx)
        parts ==
            [train |-> [users |-> train_user_index, tr |-> train_data.df,
                        te |-> None],
             validation |-> [users |-> vad_user_index,
                             tr |-> vad_train_data.df,
                             te |-> Some(vad_holdout_data.df)],
             test |-> [users |-> test_user_index, tr |-> test_train_data.df,
                       te |-> Some(test_holdout_data.df)]]
        unchanged(error) ==
            [raised |-> TRUE, error |-> error, splits |-> old.splits,
             items |-> old.items, item_index |-> old.item_index]
    IN  IF s.raised
        THEN unchanged("No objects to concatenate")
        ELSE IF \E d \in {train_data, vad_train_data, vad_holdout_data,
                           test_train_data, test_holdout_data} : d.raised
        THEN unchanged("KeyError")
        ELSE update_data(old, parts, Column(kept, "id"), idx)

\* Dataset.load
load(old, zip) ==
    LET f == zip.val
        s1 == load_split(f.train)
        s2 == load_split(f.validation)
        s3 == load_split(f.test)
    IN  IF IsNone(zip) \/ s1.raised \/ s2.raised \/ s3.raised
        THEN [raised |-> TRUE, error |-> "missing file",
              splits |-> old.splits, items |-> old.items,
              item_index |-> old.item_index]
        ELSE update_data(old,
                 [train |-> Part(s1), validation |-> Part(s2),
                  test |-> Part(s3)],
                 f.items_csv, load_index(f.items_txt))

\* ------------------------------------------------------- configuration
\* validate_dataset_config: the message of the error it raises, "" when it
\* returns
validate_dataset_config(cfg) ==
    IF cfg.train_split_prop <= 0 \/ cfg.train_split_prop >= PropUnit
    THEN "The train split proportion must be between 0 and 1"
    ELSE IF cfg.test_holdout_prop <= 0 \/ cfg.test_holdout_prop >= PropUnit
    THEN "The test holdout proportion must be between 0 and 1"
    ELSE IF cfg.min_user_interacts < 0
    THEN "Minimum user interactions can be negative"
    ELSE IF cfg.min_item_interacts < 0
    THEN "Minimum item interactions can be negative"
    ELSE ""

\* read_config, file being the values of the configuration file
read_config(file) ==
    [raised |-> validate_dataset_config(file) # "",
     error |-> IF validate_dataset_config(file) # ""
               THEN "InvalidConfigError" ELSE "",
     config |-> file]

\* ------------------------------------------------------------- inputs
Digit == <<"1", "2", "3", "4", "5", "6", "7", "8", "9">>
Letter == <<"a", "b", "c", "d">>
UserId(k) == <<Digit[k]>>
ItemId(k) == <<Letter[k]>>
AllItems == <<ItemId(1), ItemId(2)>>

\* the interaction lists one user can have: the items in row order
UserRows ==
    {<<ItemId(1)>>, <<ItemId(2)>>, <<ItemId(1), ItemId(1)>>,
     <<ItemId(2), ItemId(1), ItemId(1)>>}

TableOf(n, f) ==
    Flatten([u \in 1..n |->
        [j \in 1..Len(f[u]) |-> [user |-> UserId(u), item |-> f[u][j],
                                 value |-> 1]]])

Tables ==
    UNION {{TableOf(n, f) : f \in {g \in [1..n -> UserRows] :
                Len(Flatten(g)) <= MaxRows}} : n \in 0..NumUsers}

Configs ==
    [train_split_prop : {PropDen, 2 * PropDen},
     test_holdout_prop : {2 * PropDen, 3 * PropDen},
     min_user_interacts : {0, 2}, min_item_interacts : {0, 2},
     seed : RngStates]

\* a train proportion above 0 and below half the spacing of floats at 1
TinyConfigs ==
    {[train_split_prop |-> 1, test_holdout_prop |-> 2 * PropDen,
      min_user_interacts |-> 0, min_item_interacts |-> 0, seed |-> 0]}

\* an item threshold that the item of a user with enough interactions can
\* miss
StrictConfigs ==
    {[train_split_prop |-> PropDen, test_holdout_prop |-> 2 * PropDen,
      min_user_interacts |-> 2, min_item_interacts |-> 3, seed |-> 0]}

\* configuration files with one value out of range
BadConfigs ==
    LET c == [train_split_prop |-> PropDen, test_holdout_prop |-> 2 * PropDen,
              min_user_interacts |-> 0, min_item_interacts |-> 0, seed |-> 0]
    IN  {[c EXCEPT !.train_split_prop = 0],
         [c EXCEPT !.train_split_prop = PropUnit],
         [c EXCEPT !.test_holdout_prop = 0],
         [c EXCEPT !.test_holdout_prop = PropUnit],
         [c EXCEPT !.min_user_interacts = -1],
         [c EXCEPT !.min_item_interacts = -1]}

Fresh == [op |-> "new", error |-> ""]
NoIx == [pc |-> "off"]
NoEv == [pc |-> "off"]
NoSplits == [train |-> None, validation |-> None, test |-> None]

\* item tables load_items can return: one row per listed item, labelled by
\* the item identifier (keyed) or by the row number (pandas' default index,
\* an integer, written "#" here: it equals no identifier string)
Catalogue(ids, keyed) ==
    [i \in 1..Len(ids) |->
        [label |-> IF keyed THEN ids[i] ELSE <<"#">>, id |-> ids[i]]]

\* every item once; the same under row numbers; the last item missing; the
\* first item listed twice
Catalogues ==
    {Catalogue(AllItems, TRUE), Catalogue(AllItems, FALSE),
     Catalogue(SubSeq(AllItems, 1, Len(AllItems) - 1), TRUE),
     Catalogue(<<ItemId(1)>> \o AllItems, TRUE)}

Init ==
    /\ interactions \in Tables
    /\ config \in Configs \cup TinyConfigs \cup StrictConfigs \cup BadConfigs
    /\ rng = 0
    /\ runs = <<>>
    /\ splits = NoSplits
    /\ items = None
    /\ item_index = None
    /\ archive = None
    /\ last = Fresh
    /\ ix = NoIx
    /\ ev = NoEv

\* DatasetSplitter(...).split(interactions), called directly; a splitter
\* is built from a configuration that read_config returned
SplitRun ==
    /\ last = Fresh
    /\ ~read_config(config).raised
    /\ Len(runs) < 2
    /\ runs' = Append(runs, split(config, interactions, rng))
    /\ rng' = Advance(set_seed(config.seed))
    /\ UNCHANGED <<interactions, config, splits, items, item_index, archive,
                   last, ix, ev>>

Self == [splits |-> splits, items |-> items, item_index |-> item_index]

\* Dataset.prepare(): load_items and load_interactions, then read_config,
\* the split, and the indexing and _update_data; steps lists the stages
\* begun, the last one being the one that raised when there is an error
PrepareLoaded == <<"load_items", "load_interactions", "read_config">>

\* the end of prepare: s is what split returned, r what became of the object
PrepareEnd(s, r) ==
    /\ splits' = r.splits
    /\ items' = r.items
    /\ item_index' = r.item_index
    /\ last' = [op |-> "prepare", error |-> r.error,
                steps |-> IF s.raised
                          THEN Append(PrepareLoaded, "split")
                          ELSE PrepareLoaded \o <<"split", "_update_data">>]
    /\ rng' = Advance(set_seed(config.seed))

PrepareSplit(s) ==
    \E catalogue \in Catalogues :
        PrepareEnd(s, prepare(Self, s, catalogue))

Prepare ==
    /\ last = Fresh
    /\ runs = <<>>
    /\ LET c == read_config(config)
       IN  IF c.raised
           THEN /\ last' = [op |-> "prepare", error |-> c.error,
                            steps |-> PrepareLoaded]
                /\ UNCHANGED <<splits, items, item_index, rng>>
           ELSE PrepareSplit(split(c.config, interactions, rng))
    /\ UNCHANGED <<interactions, config, runs, archive, ix, ev>>

\* other code draws from the global generator between two runs
UseRandom ==
    /\ Len(runs) = 1
    /\ rng' \in RngStates \ {rng}
    /\ UNCHANGED <<interactions, config, runs, splits, items, item_index,
                   archive, last, ix, ev>>

\* Dataset.save(path)
Save ==
    /\ last.op \in {"prepare", "load"}
    /\ archive' = save(Self)
    /\ last' = [op |-> "save",
                error |-> IF IsNone(save(Self))
                          THEN "NoneType has no attribute name" ELSE ""]
    /\ UNCHANGED <<interactions, config, rng, runs, splits, items,
                   item_index, ix, ev>>

\* the end of load: r is what became of the object
LoadEnd(r) ==
    /\ splits' = r.splits
    /\ items' = r.items
    /\ item_index' = r.item_index
    /\ last' = [op |-> "load", error |-> r.error]

\* Dataset.load(path)
Load ==
    /\ last.op = "save"
    /\ LoadEnd(load(Self, archive))
    /\ UNCHANGED <<interactions, config, rng, runs, archive, ix, ev>>

Next == SplitRun \/ UseRandom \/ Prepare \/ Save \/ Load

Spec == Init /\ [][Next]_vars

\* ------------------------------------------ restoring incomplete archives
Loaded == last.op = "load" /\ last.error = ""

RestoreConfig ==
    [train_split_prop |-> PropDen, test_holdout_prop |-> 3 * PropDen,
     min_user_interacts |-> 0, min_item_interacts |-> 0, seed |-> 0]

\* three users with two or three interactions each
RestoreTables ==
    {TableOf(Len(f), f) :
        f \in [1..3 -> {<<ItemId(1), ItemId(1)>>,
                        <<ItemId(2), ItemId(1), ItemId(1)>>}]}

\* the archive Dataset.save writes for the dataset prepared from table t
SavedArchive(t) ==
    save(prepare([splits |-> NoSplits, items |-> None, item_index |-> None],
                 split(RestoreConfig, t, 0), Catalogue(AllItems, TRUE)))

Files == {"train_csv", "holdout_csv", "users_txt"}

Without(files, gone) ==
    [f \in DOMAIN files |-> IF f \in gone THEN None ELSE files[f]]

\* saved archives from which files of the partitions have been removed
Archives ==
    {Some([SavedArchive(t).val EXCEPT !.train = Without(@, g1),
                                      !.validation = Without(@, g2),
                                      !.test = Without(@, g3)]) :
        t \in RestoreTables, g1 \in SUBSET Files, g2 \in SUBSET Files,
        g3 \in SUBSET Files}

InitRestore ==
    /\ interactions = <<>>
    /\ config = RestoreConfig
    /\ rng = 0
    /\ runs = <<>>
    /\ splits = NoSplits
    /\ items = None
    /\ item_index = None
    /\ archive \in Archives
    /\ last = Fresh
    /\ ix = NoIx
    /\ ev = NoEv

\* Dataset.load(path) of a new Dataset object
Restore ==
    /\ last = Fresh
    /\ ~IsNone(archive)
    /\ LoadEnd(load(Self, archive))
    /\ UNCHANGED <<interactions, config, rng, runs, archive, ix, ev>>

\* row r of a matrix, every column with its value
MatrixRow(m, r) ==
    [c \in 0..(m.shape[2] - 1) |->
        IF <<r, c>> \in DOMAIN m.data THEN m.data[<<r, c>>] ELSE 0]

\* matrix[index]: index is a row number (by = "position"), or a user
\* identifier, a string (by = "key"), or None; only a row number of the
\* matrix selects a row
matrix_getitem(m, index, by) ==
    IF IsNone(index) \/ by # "position"
    THEN [raised |-> TRUE, error |-> "IndexError"]
    ELSE IF index.val \notin 0..(m.shape[1] - 1)
    THEN [raised |-> TRUE, error |-> "IndexError"]
    ELSE [raised |-> FALSE, error |-> "", row |-> MatrixRow(m, index.val)]

\* Dataset.get_interactions_by_user(uid, split) on the Split sp: uid is
\* handed to index_to_uid, the lookup in the inverse index, which maps row
\* numbers to identifiers; an identifier is no key of it
get_interactions_by_user(sp, uid, by) ==
    LET index == IF by = "position" THEN inverse_get(sp.user_index, uid)
                 ELSE None
    IN  matrix_getitem(sp.complete_matrix, index, "key")

\* the uid arguments: the user identifiers of the Split sp, and row numbers
UidArgs(sp) ==
    {[by |-> "key", uid |-> sp.user_index.keys[i]] :
        i \in 1..Len(sp.user_index.keys)}
        \cup {[by |-> "position", uid |-> r] :
                 r \in 0..Len(sp.user_index.keys)}

\* dataset.get_interactions_by_user(uid, split) on the restored dataset
GetInteractionsByUser ==
    /\ Loaded
    /\ ix = NoIx
    /\ \E name \in DOMAIN splits : \E a \in UidArgs(splits[name]) :
          LET r == get_interactions_by_user(splits[name], a.uid, a.by)
          IN  ix' = [pc |-> "row", split |-> name, by |-> a.by,
                     key |-> Some(a.uid), raised |-> r.raised,
                     result |-> IF r.raised THEN None ELSE Some(r.row)]
    /\ UNCHANGED <<interactions, config, rng, runs, splits, items,
                   item_index, archive, last, ev>>

NextRestore == Restore \/ GetInteractionsByUser

SpecRestore == InitRestore /\ [][NextRestore]_vars

\* ----------------------------------------- the index functions by themselves
Alphabet == {"a", " ", "\n"}
IdStrings == UNION {[1..n -> Alphabet] : n \in 0..MaxIdLen}
IdLists == UNION {[1..n -> IdStrings] : n \in 0..MaxIds}

Idle ==
    /\ interactions = <<>>
    /\ config = CHOOSE c \in Configs : TRUE
    /\ rng = 0
    /\ runs = <<>>
    /\ splits = NoSplits
    /\ items = None
    /\ item_index = None
    /\ archive = None
    /\ last = Fresh

InitIndex ==
    /\ Idle
    /\ ix \in {[pc |-> "ids", ids |-> ids] : ids \in IdLists}
    /\ ev = NoEv

Rest == <<interactions, config, rng, runs, splits, items, item_index,
          archive, last>>

\* index = build_index(ids)
BuildIndex ==
    /\ ix.pc = "ids"
    /\ ix' = [pc |-> "built", ids |-> ix.ids, index |-> build_index(ix.ids)]
    /\ UNCHANGED <<Rest, ev>>

\* save_index(index, file_path)
SaveIndex ==
    /\ ix.pc = "built"
    /\ ix' = [pc |-> "saved", ids |-> ix.ids, index |-> ix.index,
              file |-> save_index(ix.index)]
    /\ UNCHANGED <<Rest, ev>>

\* load_index(file_path)
LoadIndex ==
    /\ ix.pc = "saved"
    /\ ix' = [pc |-> "loaded", ids |-> ix.ids, index |-> ix.index,
              file |-> ix.file, loaded |-> load_index(ix.file)]
    /\ UNCHANGED <<Rest, ev>>

\* the identifiers looked up: the empty one and those of one character
LookupKeys == {key \in IdStrings : Len(key) <= 1}

\* Dataset.iid_to_index(iid), uid_to_index(uid): index.get(key)
IdToIndex ==
    /\ ix.pc = "built"
    /\ \E key \in LookupKeys :
          ix' = [pc |-> "got", ids |-> ix.ids, index |-> ix.index,
                 by |-> "key", key |-> Some(key), raised |-> FALSE,
                 result |-> index_get(ix.index, key)]
    /\ UNCHANGED <<Rest, ev>>

\* Dataset.index_to_iid(index), index_to_uid(index):
\* index.inverse.get(position)
IndexToId ==
    /\ ix.pc = "built"
    /\ \E position \in 0..MaxIds :
          ix' = [pc |-> "got", ids |-> ix.ids, index |-> ix.index,
                 by |-> "position", key |-> Some(position), raised |-> FALSE,
                 result |-> inverse_get(ix.index, position)]
    /\ UNCHANGED <<Rest, ev>>

\* reindex_data(df, user_index, item_index) for a table of one row
ReindexData ==
    /\ ix.pc = "built"
    /\ \E key \in LookupKeys :
          LET df == <<[user |-> key, item |-> key, value |-> 1]>>
              r == reindex_data(df, ix.index, ix.index)
          IN  ix' = [pc |-> "reindexed", ids |-> ix.ids, index |-> ix.index,
                     by |-> "key", key |-> Some(key), raised |-> r.raised,
                     result |-> IF r.raised THEN None ELSE Some(r.df)]
    /\ UNCHANGED <<Rest, ev>>

NextIndex ==
    BuildIndex \/ SaveIndex \/ LoadIndex \/ IdToIndex \/ IndexToId
        \/ ReindexData

SpecIndex == InitIndex /\ [][NextIndex]_vars

\* np.argsort(-topk_part) applied to the first k entries of an argpartition
\* result idx: the orders of those k columns by falling score; the order of
\* columns with equal scores is not fixed by the sort
idx_topks(row, k) ==
    UNION {{[r \in 1..k |-> idx[q[r]]] :
               q \in {q \in Permutations(1..k) :
                         \A i, j \in 1..k :
                            i < j => row[idx[q[i]]] >= row[idx[q[j]]]}} :
           idx \in argpartitions(row, k)}

\* 1.0 / np.log2(np.arange(2, k + 2)) in units of 1/10000, rounded
discount == <<10000, 6309, 5000, 4307, 3869>>

RECURSIVE SumSeq(_)
SumSeq(s) == IF s = <<>> THEN 0 ELSE Head(s) + SumSeq(Tail(s))

\* Evaluator.ndcg, idx_topk being the top k columns by falling score and nnz
\* heldout_batch.getnnz(axis=1), the number of stored cells of each row
ndcg(X_pred, heldout_batch, nnz, k, idx_topk) ==
    [u \in 1..Len(X_pred) |->
        LET DCG == SumSeq([r \in 1..k |->
                             heldout_batch[u][idx_topk[u][r]] * discount[r]])
            IDCG == SumSeq(SubSeq(discount, 1, Min2(nnz[u], k)))
        IN  [num |-> DCG, den |-> IDCG]]

\* the presets of Evaluator.__init__, with cut-offs below the number of
\* columns of the batches
metrics ==
    <<[name |-> "Recall@1", method |-> "recall", k |-> 1],
      [name |-> "Recall@2", method |-> "recall", k |-> 2],
      [name |-> "NCDG@2", method |-> "ndcg", k |-> 2]>>

\* a per-user value is not a number when its divisor is zero
IsNaN(v) == v.den = 0

\* np.mean of a result vector; the sum of quotients is kept as a quotient
mean(values) ==
    LET sum[i \in 0..Len(values)] ==
            IF i = 0 THEN [num |-> 0, den |-> 1]
            ELSE [num |-> sum[i - 1].num * values[i].den
                            + values[i].num * sum[i - 1].den,
                  den |-> sum[i - 1].den * values[i].den]
    IN  [num |-> sum[Len(values)].num,
         den |-> sum[Len(values)].den * Len(values)]

\* one line of print_results: the mean, and whether the mean and the
\* standard error are numbers
print_line(name, values) ==
    [name |-> name,
     nan |-> \E u \in 1..Len(values) : IsNaN(values[u]),
     mean |-> mean(values)]


\* ------------------------------------------------ the metrics by themselves
ScoreRows == [1..NumCols -> 0..MaxScore]
RatingRows == [1..NumCols -> 0..MaxRating]

\* a batch of one user: the scores of a model, the holdout row, and the
\* columns of the holdout row that are stored (a stored cell may hold 0)
InitEval ==
    /\ Idle
    /\ ix = NoIx
    /\ \E x \in ScoreRows, h \in RatingRows, st \in SUBSET (1..NumCols) :
          /\ \A c \in 1..NumCols : h[c] # 0 => c \in st
          /\ ev = [pc |-> "ready", X_pred |-> <<x>>, heldout |-> <<h>>,
                   stored |-> <<st>>]

\* Evaluator.recall(X_pred, heldout_batch, k); bn.argpartition raises when
\* k is not below the number of columns
Recall ==
    /\ ev.pc = "ready"
    /\ \E k \in 1..NumCols :
          IF k >= NumCols
          THEN ev' = [pc |-> "raised", X_pred |-> ev.X_pred,
                      heldout |-> ev.heldout, stored |-> ev.stored, k |-> k]
          ELSE \E idx \in {<<p>> : p \in argpartitions(ev.X_pred[1], k)} :
                  /\ ev' = [pc |-> "recall", X_pred |-> ev.X_pred,
                            heldout |-> ev.heldout, stored |-> ev.stored,
                            k |-> k,
                            out |-> recall(ev.X_pred, ev.heldout, k, idx)]
    /\ UNCHANGED <<Rest, ix>>

getnnz(stored) == [u \in 1..Len(stored) |-> Cardinality(stored[u])]

\* Evaluator.ndcg(X_pred, heldout_batch, k)
Ndcg ==
    /\ ev.pc = "ready"
    /\ \E k \in 1..NumCols :
          IF k >= NumCols
          THEN ev' = [pc |-> "raised", X_pred |-> ev.X_pred,
                      heldout |-> ev.heldout, stored |-> ev.stored, k |-> k]
          ELSE \E idx_topk \in {<<p>> : p \in idx_topks(ev.X_pred[1], k)} :
                  /\ ev' = [pc |-> "ndcg", X_pred |-> ev.X_pred,
                            heldout |-> ev.heldout, stored |-> ev.stored,
                            k |-> k, idx_topk |-> idx_topk,
                            out |-> ndcg(ev.X_pred, ev.heldout,
                                         getnnz(ev.stored), k, idx_topk)]
    /\ UNCHANGED <<Rest, ix>>

\* the result vectors one preset may give for the batch, one for every
\* order bn.argpartition and np.argsort may choose
metric_results(m) ==
    IF m.method = "recall"
    THEN {recall(ev.X_pred, ev.heldout, m.k, <<p>>) :
             p \in argpartitions(ev.X_pred[1], m.k)}
    ELSE {ndcg(ev.X_pred, ev.heldout, getnnz(ev.stored), m.k, <<p>>) :
             p \in idx_topks(ev.X_pred[1], m.k)}

\* Evaluator.evaluate_model(model, X, heldout_batch), ev.X_pred being
\* model.predict(X): every preset is computed and stored under its name
EvaluateModel ==
    /\ ev.pc = "ready"
    /\ \E r1 \in metric_results(metrics[1]),
          r2 \in metric_results(metrics[2]),
          r3 \in metric_results(metrics[3]) :
          ev' = [pc |-> "evaluated", X_pred |-> ev.X_pred,
                 heldout |-> ev.heldout, stored |-> ev.stored,
                 results |-> <<r1, r2, r3>>]
    /\ UNCHANGED <<Rest, ix>>

\* Evaluator.print_results()
PrintResults ==
    /\ ev.pc = "evaluated"
    /\ ev' = [pc |-> "printed", X_pred |-> ev.X_pred, heldout |-> ev.heldout,
              stored |-> ev.stored, results |-> ev.results,
              report |-> [m \in 1..Len(metrics) |->
                            print_line(metrics[m].name, ev.results[m])]]
    /\ UNCHANGED <<Rest, ix>>

NextEval == Recall \/ Ndcg \/ EvaluateModel \/ PrintResults

SpecEval == InitEval /\ [][NextEval]_vars

\* ------------------------------------------- the results of an Evaluator
\* the four presets of Evaluator.__init__ in the order of the dict; the
\* cut-offs 5, 20, 50 and 100 are scaled to 1, 2, 3 and 4
presets ==
    <<[name |-> "Recall@5", method |-> "recall", k |-> 1],
      [name |-> "Recall@20", method |-> "recall", k |-> 2],
      [name |-> "Recall@50", method |-> "recall", k |-> 3],
      [name |-> "NCDG@100", method |-> "ndcg", k |-> 4]>>

PresetNames == {presets[i].name : i \in DOMAIN presets}

\* model.name() of the models evaluated
ModelNames == {"knn", "pop"}

\* batches of one user: model.predict(X) and the holdout row; the widest
\* has more columns than the largest cut-off, the others have not
Batches ==
    {[X_pred |-> <<x>>, heldout |-> <<h>>] :
        <<x, h>> \in {<<<<4, 3, 2, 1, 0>>, <<1, 0, 0, 0, 0>>>>,
                      <<<<0, 1, 2, 3, 4>>, <<1, 0, 0, 0, 0>>>>,
                      <<<<3, 2, 1, 0>>, <<1, 0, 0, 0>>>>,
                      <<<<0>>, <<1>>>>}}

Width(b) == Len(b.X_pred[1])

\* the vectors metric[1].get("method")(X_pred, heldout_batch, k) may return
\* for one preset; bn.argpartition raises when k is not below the width
preset_values(m, b) ==
    LET nnz == [u \in 1..Len(b.heldout) |->
                  Cardinality({c \in 1..Width(b) : b.heldout[u][c] # 0})]
    IN  IF m.method = "recall"
        THEN {recall(b.X_pred, b.heldout, m.k, <<q>>) :
                 q \in argpartitions(b.X_pred[1], m.k)}
        ELSE {ndcg(b.X_pred, b.heldout, nnz, m.k, <<q>>) :
                 q \in idx_topks(b.X_pred[1], m.k)}

\* the number of presets the loop of evaluate_model completes on batch b
Completed(b) ==
    Cardinality({i \in DOMAIN presets :
                    \A j \in 1..i : presets[j].k < Width(b)})

\* what self.results[model.name()] can hold when evaluate_model ends, by
\* returning or by the first preset that raises: the entry is emptied
\* first and filled preset by preset
entries(b) ==
    LET done == {presets[i].name : i \in 1..Completed(b)}
        all == UNION {preset_values(presets[i], b) : i \in 1..Completed(b)}
    IN  {e \in [done -> all] :
            \A i \in 1..Completed(b) :
                e[presets[i].name] \in preset_values(presets[i], b)}

\* self.results with the entry of name replaced
results_set(results, name, entry) ==
    [n \in DOMAIN results \cup {name} |->
        IF n = name THEN entry ELSE results[n]]

InitResults ==
    /\ Idle
    /\ ix = NoIx
    /\ ev = [pc |-> "results", results |-> <<>>, calls |-> <<>>]

\* Evaluator.evaluate_model(model, X, heldout_batch) on the same Evaluator
EvaluateNamed ==
    /\ ev.pc = "results"
    /\ Len(ev.calls) < MaxCalls
    /\ \E name \in ModelNames, b \in Batches :
          \E entry \in entries(b) :
              ev' = [pc |-> "results",
                     results |-> results_set(ev.results, name, entry),
                     calls |-> Append(ev.calls,
                                 [name |-> name, batch |-> b,
                                  raised |-> Completed(b) < Len(presets)])]
    /\ UNCHANGED <<Rest, ix>>

NextResults == EvaluateNamed

SpecResults == InitResults /\ [][NextResults]_vars

\* ------------------------------------- the splitter's steps by themselves
\* the interaction lists one user of a partition can have
PartRows ==
    {<<ItemId(1)>>, <<ItemId(1), ItemId(1)>>, <<ItemId(1), ItemId(2)>>,
     <<ItemId(2), ItemId(2)>>, <<ItemId(2), ItemId(1), ItemId(1)>>}

\* a table whose value column holds the place of the row in its user's list
PartTable(n, f) ==
    Flatten([u \in 1..n |->
        [j \in 1..Len(f[u]) |-> [user |-> UserId(u), item |-> f[u][j],
                                 value |-> j]]])

PartTables ==
    UNION {{PartTable(n, f) : f \in [1..n -> PartRows]} : n \in 0..PartUsers}

PartConfigs ==
    [train_split_prop : {PropDen},
     test_holdout_prop : {2 * PropDen, 3 * PropDen},
     min_user_interacts : {0, 2}, min_item_interacts : {0, 2},
     seed : {0, RngPeriod - 1}]

InitSplitter ==
    /\ interactions \in PartTables
    /\ config \in PartConfigs
    /\ rng = 0
    /\ runs = <<>>
    /\ splits = NoSplits
    /\ items = None
    /\ item_index = None
    /\ archive = None
    /\ last = Fresh
    /\ ix = NoIx
    /\ ev = NoEv

\* self._filter_interact_data(interact_data, users, item_index) for a list
\* of users of the table and a list of items
FilterInteractData ==
    /\ last = Fresh
    /\ \E U \in SUBSET Range(Column(interactions, "user")),
          I \in SUBSET Range(AllItems) :
          last' = [op |-> "_filter_interact_data", error |-> "",
                   users |-> SortedIds(U), item_index |-> SortedIds(I),
                   out |-> filter_interact_data(config, interactions,
                               SortedIds(U), SortedIds(I))]
    /\ UNCHANGED <<interactions, config, rng, runs, splits, items,
                   item_index, archive, ix, ev>>

\* self._split_train_test(data) with the generator in any state
SplitTrainTest ==
    /\ last = Fresh
    /\ \E st \in RngStates :
          last' = [op |-> "_split_train_test", error |-> "", st |-> st,
                   out |-> split_train_test(config, interactions, st)]
    /\ UNCHANGED <<interactions, config, rng, runs, splits, items,
                   item_index, archive, ix, ev>>

\* what prepare and _update_data do with one returned partition: the two
\* indexes, reindex_data of its tables and its Split(...) statement; te is
\* None for the training partition
PartitionOf(name, users, item_ids, tr, te) ==
    LET user_index == build_index(users)
        idx == build_index(item_ids)
        a == reindex_data(tr, user_index, idx)
        b == IF IsNone(te) THEN a ELSE reindex_data(te.val, user_index, idx)
    IN  IF a.raised \/ b.raised
        THEN [raised |-> TRUE, error |-> "KeyError"]
        ELSE MakeSplit(name,
                 [users |-> user_index, tr |-> a.df,
                  te |-> IF IsNone(te) THEN None ELSE Some(b.df)],
                 Len(item_ids), ~IsNone(te))

PartitionBuilt(users, tr, out) ==
    [built |-> TRUE, users |-> users, tr |-> tr, out |-> out]

\* a validation / test partition: f is what _filter_interact_data returned
\* and s what _split_train_test made of it
HeldPartitionOf(name, f, item_ids, s) ==
    IF s.raised
    THEN [built |-> FALSE, error |-> "No objects to concatenate"]
    ELSE PartitionBuilt(f.users, s.tr,
             PartitionOf(name, f.users, item_ids, s.tr, Some(s.te)))

HeldPartition(cfg, name, f, item_ids, st) ==
    HeldPartitionOf(name, f, item_ids,
                    split_train_test(cfg, f.interacts, st))

\* the training partition of the users tr_users
TrainPartitionOf(tr_users, train_data) ==
    PartitionBuilt(tr_users, train_data,
        PartitionOf("train", tr_users, unique(Column(train_data, "item")),
                    train_data, None))

TrainPartition(interact_data, tr_users) ==
    TrainPartitionOf(tr_users,
        Where(interact_data, LAMBDA t : t.user \in Range(tr_users)))

\* one partition from split to its Split object: the users of the table
\* are the users of the partition, item_index the items of the training
\* users
BuildPartition ==
    /\ last = Fresh
    /\ \E name \in {"train", "validation", "test"},
          I \in SUBSET Range(AllItems) :
          LET users == SortedIds(Range(Column(interactions, "user")))
          IN  last' = [op |-> "partition", error |-> "", name |-> name,
                       part |->
                         IF name = "train"
                         THEN TrainPartition(interactions, users)
                         ELSE HeldPartition(config, name,
                                  filter_interact_data(config, interactions,
                                      users, SortedIds(I)),
                                  SortedIds(I), rng)]
    /\ UNCHANGED <<interactions, config, rng, runs, splits, items,
                   item_index, archive, ix, ev>>

NextSplitter == FilterInteractData \/ SplitTrainTest \/ BuildPartition

SpecSplitter == InitSplitter /\ [][NextSplitter]_vars

\* ================================================================ claims
Held == {"validation", "test"}
Returned == {i \in DOMAIN runs : ~runs[i].raised}
ItemsOf(tp) == Range(Column(tp, "item"))
UsersOf(tp) == Range(Column(tp, "user"))
PostFilterUsers == Range(filter_triplets(config, interactions).user_count)
ReturnedUsers(r) ==
    Range(r.train.users) \cup Range(r.validation.users)
        \cup Range(r.test.users)
ReturnedRows(r) ==
    r.train.tr \o r.validation.tr \o r.validation.te \o r.test.tr \o r.test.te
Prepared == last.op = "prepare" /\ last.error = ""

\* C1: in every validation and test partition turned into matrices, no
\* (user row, item column) cell is non-zero in both the training matrix and
\* the holdout matrix, also for tables that repeat a (user, item) pair.
C1_TrainHoldoutDisjoint ==
    \A n \in Held :
        ~IsNone(splits[n]) =>
            NonZero(splits[n].training_matrix)
                \cap NonZero(splits[n].holdout_matrix) = {}

\* C2 as stated: the three returned user lists are pairwise disjoint and
\* their union is the set of users that survive the initial filter.
C2_UsersPartitionSurvivors ==
    \A i \in Returned :
        /\ Range(runs[i].train.users) \cap Range(runs[i].validation.users) = {}
        /\ Range(runs[i].train.users) \cap Range(runs[i].test.users) = {}
        /\ Range(runs[i].validation.users) \cap Range(runs[i].test.users) = {}
        /\ ReturnedUsers(runs[i]) = PostFilterUsers

\* C2 amended: the three returned user lists are pairwise disjoint, every
\* listed user survived the initial filter, and a surviving user missing
\* from all three lists has no triplet in any returned table.
C2_UsersDisjointWithinSurvivors ==
    \A i \in Returned :
        /\ Range(runs[i].train.users) \cap Range(runs[i].validation.users) = {}
        /\ Range(runs[i].train.users) \cap Range(runs[i].test.users) = {}
        /\ Range(runs[i].validation.users) \cap Range(runs[i].test.users) = {}
        /\ ReturnedUsers(runs[i]) \subseteq PostFilterUsers
        /\ \A u \in PostFilterUsers \ ReturnedUsers(runs[i]) :
               u \notin UsersOf(ReturnedRows(runs[i]))

C2_Witness ==
    \E i \in Returned :
        /\ ReturnedUsers(runs[i]) # PostFilterUsers
        /\ runs[i].validation.users # <<>>
        /\ runs[i].test.users # <<>>

\* C3: every triplet of the validation and test outputs of split, visible
\* and holdout alike, has an item that occurs in the returned train table.
C3_ItemsSeenInTraining ==
    \A i \in Returned :
        ItemsOf(runs[i].validation.tr \o runs[i].validation.te
                \o runs[i].test.tr \o runs[i].test.te)
            \subseteq ItemsOf(runs[i].train.tr)

C3_Witness ==
    \E i \in Returned :
        /\ runs[i].validation.tr # <<>>
        /\ \E j \in DOMAIN interactions :
              /\ interactions[j].item \notin ItemsOf(runs[i].train.tr)
              /\ interactions[j].user \in Range(runs[i].validation.users)

\* C4: when _update_data builds a validation/test Split, the training and
\* the holdout matrix have the same shape, so their sum is defined.
C4_SumDefined == ~(last.op = "prepare" /\ last.error = "inconsistent shapes")

\* C5: after prepare, every matrix of the three partitions has as many
\* columns as there are distinct items in the training triplets, the size
\* of the item index.
C5_ColumnCount ==
    Prepared =>
        \A n \in DOMAIN splits :
            /\ splits[n].training_matrix.shape[2]
                   = Len(item_index.val.keys)
            /\ splits[n].complete_matrix.shape[2]
                   = Len(item_index.val.keys)

\* C6: two runs of split with the same seed, parameters and input table
\* return the same user lists and the same triplet tables, whatever state
\* the global generator was in before each run.
C6_Deterministic == Len(runs) = 2 => runs[1] = runs[2]

C6_Witness ==
    /\ Len(runs) = 2
    /\ ~runs[2].raised
    /\ runs[2].validation.te # <<>>
    /\ Len(runs[2].train.users) > 1

SameCells(a, b) ==
    /\ NonZero(a) = NonZero(b)
    /\ \A c \in NonZero(a) : a.data[c] = b.data[c]

\* C9: restoring a saved dataset yields, for every Split, training and
\* holdout matrices with the non-zero positions and values of the saved ones.
C9_SplitRoundTrip ==
    [][(last.op = "save" /\ last.error = "" /\ last'.op = "load") =>
          /\ last'.error = ""
          /\ \A n \in DOMAIN splits :
                /\ SameCells(splits[n].training_matrix,
                             splits'[n].training_matrix)
                /\ IsNone(splits[n].holdout_matrix)
                       = IsNone(splits'[n].holdout_matrix)
                /\ ~IsNone(splits[n].holdout_matrix) =>
                       SameCells(splits[n].holdout_matrix,
                                 splits'[n].holdout_matrix)]_vars

C9_Witness ==
    /\ Loaded
    /\ \E c \in DOMAIN splits.train.training_matrix.data :
           splits.train.training_matrix.data[c] = 2
    /\ NonZero(splits.test.holdout_matrix) # {}

\* C7: in every index returned by build_index(ids), mapping an identifier
\* of ids to its position and back returns the identifier, and the
\* positions are exactly 0 .. count - 1, count being the number of
\* identifiers in the index, also when ids repeats an identifier.
C7_DenseBijection ==
    ix.pc = "built" =>
        /\ \A id \in Range(ix.ids) :
              /\ ~IsNone(index_get(ix.index, id))
              /\ inverse_get(ix.index, index_get(ix.index, id).val) = Some(id)
        /\ {ix.index.pos[id] : id \in DOMAIN ix.index.pos}
               = 0..(Len(ix.index.keys) - 1)

\* C8: load_index applied to the file written by save_index yields an index
\* equal to the original: the same identifiers, each at the same position.
C8_IndexRoundTrip == ix.pc = "loaded" => ix.loaded.pos = ix.index.pos

Holdout(u) == {c \in 1..NumCols : ev.heldout[u][c] > 0}

IsTopK(u, T) ==
    /\ Cardinality(T) = ev.k
    /\ \A c \in T : \A d \in (1..NumCols) \ T :
           ev.X_pred[u][d] <= ev.X_pred[u][c]

\* C10: for a user row with a non-empty holdout set H and k below the number
\* of columns, recall returns |T \cap H| / min(k, |H|) for a set T of exactly
\* k columns such that no column outside T has a strictly higher score than
\* a column inside T.
C10_RecallFormula ==
    ev.pc = "recall" =>
        \A u \in 1..Len(ev.X_pred) :
            Holdout(u) # {} =>
                /\ ev.out[u].den # 0
                /\ \E T \in SUBSET (1..NumCols) :
                      /\ IsTopK(u, T)
                      /\ ev.out[u].num * Min2(ev.k, Cardinality(Holdout(u)))
                            = Cardinality(T \cap Holdout(u)) * ev.out[u].den

C10_Witness ==
    /\ ev.pc = "recall"
    /\ ev.k = 2
    /\ Cardinality(Holdout(1)) = 1
    /\ ev.out[1].num = 1
    /\ \E c, d \in 1..NumCols : c # d /\ ev.X_pred[1][c] = ev.X_pred[1][d]

InUnitInterval(v) == v.den > 0 /\ 0 <= v.num /\ v.num <= v.den

\* C11: for every user row with a non-empty holdout set, the per-user values
\* returned by recall and by ndcg lie in [0, 1], for ndcg also when holdout
\* values are ratings greater than 1.
C11_MetricsInUnitInterval ==
    ev.pc \in {"recall", "ndcg"} =>
        \A u \in 1..Len(ev.X_pred) :
            Holdout(u) # {} => InUnitInterval(ev.out[u])

\* C12: when the top k predicted items, by falling score, are exactly the
\* holdout items of highest relevance in falling relevance order, ndcg
\* returns 1.0 (DCG equals IDCG).
C12_PerfectRankingIsOne ==
    ev.pc = "ndcg" =>
        \A u \in 1..Len(ev.X_pred) :
            (/\ \A r \in 1..ev.k : ev.idx_topk[u][r] \in Holdout(u)
             /\ ev.idx_topk[u] \in idx_topks(ev.heldout[u], ev.k))
                => /\ ev.out[u].den # 0
                   /\ ev.out[u].num = ev.out[u].den

\* C13: a user with an empty holdout row puts no undefined value into the
\* result vectors stored by evaluate_model, and no line of print_results is
\* undefined because of such a user.
C13_NoNaNFromEmptyHoldout ==
    /\ ev.pc \in {"evaluated", "printed"} =>
          \A m \in 1..Len(metrics) : \A u \in 1..Len(ev.X_pred) :
              Holdout(u) = {} => ~IsNaN(ev.results[m][u])
    /\ ev.pc = "printed" =>
          ((\A u \in 1..Len(ev.X_pred) : Holdout(u) = {})
              => \A m \in 1..Len(metrics) : ~ev.report[m].nan)

\* C14: a configuration with a proportion outside (0,1) or a negative
\* threshold raises a fatal configuration error, and Dataset.prepare raises
\* it before load_items or load_interactions reads any data and before the
\* splitter runs.
C14_ConfigErrorBeforeData ==
    (last.op = "prepare" /\ validate_dataset_config(config) # "") =>
        /\ last.error = "InvalidConfigError"
        /\ \A i \in 1..Len(last.steps) :
              last.steps[i] \notin {"load_items", "load_interactions", "split"}

\* the users the split gives to each partition for the present input
PartitionUsers ==
    LET f == filter_triplets(config, interactions)
        user_index == shuffle(config, f.user_count, rng)
        blocks == user_blocks(user_index,
                              n_holdout_users(config, Len(user_index)))
        items_in_train ==
            unique(Column(Where(f.tp, LAMBDA t : t.user \in Range(blocks.tr)),
                          "item"))
    IN  [train |-> blocks.tr,
         validation |-> filter_interact_data(config, f.tp, blocks.vad,
                                             items_in_train).users,
         test |-> filter_interact_data(config, f.tp, blocks.test,
                                       items_in_train).users]

EmptyPartition ==
    \E name \in {"train", "validation", "test"} : PartitionUsers[name] = <<>>

\* C15: when the threshold filter leaves no user or no item, or a partition
\* gets no user, prepare ends with a fatal configuration error before any
\* matrix is built, and no empty partition is returned.
C15_EmptyPartitionRejected ==
    (last.op = "prepare" /\ validate_dataset_config(config) = ""
        /\ EmptyPartition) =>
        /\ last.error = "InvalidConfigError"
        /\ "_update_data" \notin Range(last.steps)
        /\ splits = NoSplits

InIndex(key) ==
    IF ix.by = "key"
    THEN key.val \in DOMAIN ix.index.pos
    ELSE \E id \in DOMAIN ix.index.pos : ix.index.pos[id] = key.val

\* C16: looking up an identifier or a position that is not in an index, by
\* the Dataset lookups or by reindex_data, yields an explicit absent result
\* and never raises.
C16_LookupMissIsAbsent ==
    (ix.pc \in {"got", "reindexed"} /\ ~InIndex(ix.key)) =>
        /\ ~ix.raised
        /\ ix.result = None

Parts == {"train", "validation", "test"}
Missing(part, file) == IsNone(archive.val[part][file])
RequiredPresent ==
    \A part \in Parts :
        ~Missing(part, "train_csv") /\ ~Missing(part, "users_txt")

\* load_split tolerates a missing holdout file and returns no holdout
HoldoutOptionalInLoadSplit ==
    \A part \in Parts :
        (/\ Missing(part, "holdout_csv")
         /\ ~Missing(part, "train_csv")
         /\ ~Missing(part, "users_txt"))
            => /\ ~load_split(archive.val[part]).raised
               /\ IsNone(load_split(archive.val[part]).te)

\* C17 as stated: a missing holdout file of any partition is not an error,
\* the partition's Split is built without a holdout; a missing training or
\* user-index file makes the restore fail.
C17_MissingHoldoutIsNoError ==
    last.op = "load" =>
        /\ HoldoutOptionalInLoadSplit
        /\ RequiredPresent =>
              /\ last.error = ""
              /\ \A part \in Parts :
                    Missing(part, "holdout_csv") =>
                        /\ ~IsNone(splits[part])
                        /\ IsNone(splits[part].holdout_matrix)
        /\ ~RequiredPresent => last.error # ""

\* C17 amended: load_split returns no holdout for a missing holdout file of
\* any partition; the train Split is built without a holdout; a missing
\* holdout file of the validation or test partition makes _update_data and
\* the restore fail, as does a missing training or user-index file.
C17_MissingHoldoutOnlyForTrain ==
    last.op = "load" =>
        /\ HoldoutOptionalInLoadSplit
        /\ RequiredPresent =>
              /\ ~IsNone(splits.train)
              /\ IsNone(splits.train.holdout_matrix)
              /\ IF Missing("validation", "holdout_csv")
                       \/ Missing("test", "holdout_csv")
                 THEN last.error = "holdout table is None"
                 ELSE last.error = ""
        /\ ~RequiredPresent =>
              /\ last.error = "missing file"
              /\ splits = NoSplits

C17_Witness ==
    /\ last.op = "load"
    /\ RequiredPresent
    /\ Missing("train", "holdout_csv")
    /\ Missing("validation", "holdout_csv")
    /\ ~Missing("test", "holdout_csv")
    /\ last.error # ""
    /\ ~IsNone(splits.train)

\* the shuffled survivors and the number of holdout users of the present
\* input
Shuffled ==
    shuffle(config, filter_triplets(config, interactions).user_count, rng)
HoldoutUsers == n_holdout_users(config, Len(Shuffled))
Blocks == user_blocks(Shuffled, HoldoutUsers)

\* C18: with n surviving users and h = round(n * (1 - train fraction) / 2),
\* split cuts the shuffled users into contiguous blocks of n - 2h, h and h
\* users, with 0 <= n - 2h for every n and every train fraction in (0,1);
\* n = 4 and train fraction 0.5 give 2, 1 and 1.
C18_BlockSizes ==
    Len(runs) >= 1 =>
        LET n == Len(Shuffled)
            h == HoldoutUsers
        IN  /\ 0 <= n - 2 * h
            /\ Len(Blocks.tr) = n - 2 * h
            /\ Len(Blocks.vad) = h
            /\ Len(Blocks.test) = h
            /\ Blocks.tr \o Blocks.vad \o Blocks.test = Shuffled
            /\ (n = 4 /\ 2 * config.train_split_prop = PropUnit) =>
                  <<Len(Blocks.tr), Len(Blocks.vad), Len(Blocks.test)>>
                      = <<2, 1, 1>>

\* the interactions a validation / test partition retains after
\* _filter_interact_data
Retained(name) ==
    LET f == filter_triplets(config, interactions)
        items_in_train ==
            unique(Column(Where(f.tp, LAMBDA t : t.user \in Range(Blocks.tr)),
                          "item"))
    IN  filter_interact_data(config, f.tp,
            IF name = "validation" THEN Blocks.vad ELSE Blocks.test,
            items_in_train).interacts

RowsOf(tp, u) == Where(tp, LAMBDA t : t.user = u)
Count(tp, row) == Cardinality({i \in 1..Len(tp) : tp[i] = row})

\* C19: for every user of a validation / test partition with n_items
\* retained interactions, exactly floor(test_holdout_prop * n_items) of them
\* are in the holdout table and the rest in the visible table; every
\* retained interaction is in exactly one of the two tables.
C19_HoldoutCount ==
    \A name \in Held :
        LET retained == Retained(name)
        IN  \A i \in Returned : \A u \in UsersOf(retained) :
            LET mine == RowsOf(retained, u)
                n_items == Len(mine)
                floor == (config.test_holdout_prop * n_items) \div PropUnit
                tr == RowsOf(runs[i][name].tr, u)
                te == RowsOf(runs[i][name].te, u)
            IN  /\ Len(te) = floor
                /\ Len(tr) = n_items - floor
                /\ \A row \in Range(mine) \cup Range(tr) \cup Range(te) :
                      Count(tr, row) + Count(te, row) = Count(mine, row)
                /\ floor = 0 => (te = <<>> /\ tr = mine)

C19_Witness ==
    \E i \in Returned :
        /\ \E u \in UsersOf(Retained("validation")) :
              /\ Len(RowsOf(Retained("validation"), u)) = 1
              /\ RowsOf(runs[i].validation.te, u) = <<>>
        /\ \E u \in UsersOf(Retained("test")) :
              /\ Len(RowsOf(Retained("test"), u)) = 3
              /\ Len(RowsOf(runs[i].test.te, u)) >= 1
              /\ Len(RowsOf(runs[i].test.tr, u)) >= 1

ItemPasses(t) ==
    \/ config.min_item_interacts = 0
    \/ Cardinality({i \in 1..Len(interactions) :
                       interactions[i].item = t.item})
          >= config.min_item_interacts

UserPasses(t) ==
    \/ config.min_user_interacts = 0
    \/ Cardinality({i \in 1..Len(interactions) :
                       /\ interactions[i].user = t.user
                       /\ ItemPasses(interactions[i])})
          >= config.min_user_interacts

\* C20: _filter_triplets returns exactly the triplets whose item occurs in
\* at least min_item_interacts input triplets (when that is above 0) and
\* whose user occurs in at least min_user_interacts of the triplets that
\* passed the item condition (when that is above 0); item counts are not
\* checked again after users are removed.
C20_SinglePassFilter ==
    Len(runs) >= 1 =>
        filter_triplets(config, interactions).tp
            = Where(interactions, LAMBDA t : ItemPasses(t) /\ UserPasses(t))

C20_Witness ==
    /\ Len(runs) >= 1
    /\ config.min_item_interacts > 0
    /\ config.min_user_interacts > 0
    /\ LET tp == filter_triplets(config, interactions).tp
       IN  /\ tp # interactions
           /\ \E t \in Range(tp) :
                 Cardinality({i \in 1..Len(tp) : tp[i].item = t.item})
                     < config.min_item_interacts

Filtered == last.op = "_filter_interact_data"

\* C21: every user in the user list _filter_interact_data returns (the
\* validation or test user list of split) has at least min_user_interacts
\* rows, and at least one, in the table it returns; every row of that table
\* belongs to a listed user, so a user of the partition that falls below the
\* threshold after the restriction to the training items is neither listed
\* nor has a row.
C21_ThresholdAfterRestriction ==
    Filtered =>
        /\ \A u \in Range(last.out.users) :
              /\ Len(RowsOf(last.out.interacts, u))
                    >= config.min_user_interacts
              /\ Len(RowsOf(last.out.interacts, u)) >= 1
        /\ UsersOf(last.out.interacts) = Range(last.out.users)
        /\ Range(last.out.users) \subseteq Range(last.users)
        /\ ItemsOf(last.out.interacts) \subseteq Range(last.item_index)

C21_Witness ==
    /\ Filtered
    /\ config.min_user_interacts > 0
    /\ last.out.users # <<>>
    /\ \E u \in Range(last.users) \ Range(last.out.users) :
          /\ Len(RowsOf(interactions, u)) >= config.min_user_interacts
          /\ \E t \in Range(RowsOf(interactions, u)) :
                t.item \in Range(last.item_index)
          /\ \E t \in Range(RowsOf(interactions, u)) :
                t.item \notin Range(last.item_index)

Divided == last.op = "_split_train_test" /\ ~last.out.raised

\* the places, in the list of user u, of the rows held out for u
HeldPlaces(out, u) == {t.value : t \in Range(RowsOf(out.te, u))}

\* the table with its users in the opposite order
UsersReversed(tp) ==
    LET users == SortedIds(UsersOf(tp))
    IN  Flatten([g \in 1..Len(users) |->
                    RowsOf(tp, users[Len(users) + 1 - g])])

\* C22: the places _split_train_test holds out for a user depend only on the
\* seed, the holdout fraction and the number of rows of that user: they are
\* the same when every other user is removed, when the users come in another
\* order and whatever state the generator is in at the call, and two users
\* with the same number of rows get the same places.
C22_HoldoutPerUser ==
    Divided =>
        \A u \in UsersOf(interactions) :
            LET mine == RowsOf(interactions, u)
                held == HeldPlaces(last.out, u)
            IN  /\ \A st \in RngStates :
                      /\ HeldPlaces(split_train_test(config, mine, st), u)
                            = held
                      /\ HeldPlaces(split_train_test(config,
                                        UsersReversed(interactions), st), u)
                            = held
                /\ \A v \in UsersOf(interactions) :
                      Len(RowsOf(interactions, v)) = Len(mine)
                          => HeldPlaces(last.out, v) = held
                /\ Cardinality(held)
                      = (config.test_holdout_prop * Len(mine)) \div PropUnit

C22_Witness ==
    /\ Divided
    /\ last.st # set_seed(config.seed)
    /\ \E u, v, w \in UsersOf(interactions) :
          /\ u # v
          /\ Len(RowsOf(interactions, u)) = Len(RowsOf(interactions, v))
          /\ Len(RowsOf(interactions, w)) # Len(RowsOf(interactions, u))
          /\ HeldPlaces(last.out, u) # {}
          /\ HeldPlaces(last.out, w) # {}
          /\ HeldPlaces(last.out, w) # HeldPlaces(last.out, u)

Evaluated == {ev.calls[i].name : i \in DOMAIN ev.calls}

\* the latest call of evaluate_model for a model name
Latest(name) ==
    ev.calls[CHOOSE i \in DOMAIN ev.calls :
                /\ ev.calls[i].name = name
                /\ \A j \in DOMAIN ev.calls :
                      ev.calls[j].name = name => j <= i]

\* C23: after any sequence of evaluate_model calls, results has exactly one
\* entry per model name evaluated, and that entry holds one vector for each
\* of the four presets, computed by the latest evaluation of that name (so
\* a call for one name leaves the entries of the other names as they were).
C23_ResultsPerModel ==
    ev.pc = "results" =>
        /\ DOMAIN ev.results = Evaluated
        /\ \A name \in Evaluated :
              /\ DOMAIN ev.results[name] = PresetNames
              /\ \A i \in DOMAIN presets :
                    ev.results[name][presets[i].name]
                        \in preset_values(presets[i], Latest(name).batch)

\* C24: get_interactions_by_user(uid, split), for the identifier uid of a
\* user of the split, returns the row of the split's complete matrix at the
\* position the split's user index assigns to uid.
C24_RowOfUser ==
    (ix.pc = "row" /\ ix.by = "key"
        /\ ~IsNone(index_get(splits[ix.split].user_index, ix.key.val))) =>
        /\ ~ix.raised
        /\ ix.result
              = Some(MatrixRow(splits[ix.split].complete_matrix,
                     index_get(splits[ix.split].user_index,
                               ix.key.val).val))

Partitioned == last.op = "partition" /\ last.part.built
RowCells(m, r) == {c \in DOMAIN m.data : c[1] = r}

\* C25: in each of the three partitions built by prepare the training matrix
\* has as many rows as the partition's user index has users; every user of a
\* returned user list keeps at least one triplet in the visible table, and
\* every triplet's user is in the user list.
C25_TrainingRowsAreUsers ==
    Partitioned =>
        /\ UsersOf(last.part.tr) = Range(last.part.users)
        /\ ~last.part.out.raised =>
              LET sp == last.part.out
                  n == Len(sp.user_index.keys)
              IN  /\ n = Len(last.part.users)
                  /\ sp.training_matrix.shape[1] = n
                  /\ \A r \in 0..(n - 1) :
                        RowCells(sp.training_matrix, r) # {}

\* a validation or test partition of three users turned into matrices: one
\* of them has a single interaction and nothing held out, another keeps one
\* cell visible while the holdout holds at least one of its cells
C25_Witness ==
    /\ Partitioned
    /\ last.name \in Held
    /\ ~last.part.out.raised
    /\ LET sp == last.part.out
           n == Len(sp.user_index.keys)
       IN  /\ n = 3
           /\ \E r \in 0..(n - 1) :
                 /\ Len(RowsOf(interactions, last.part.users[r + 1])) = 1
                 /\ RowCells(sp.holdout_matrix, r) = {}
           /\ \E r \in 0..(n - 1) :
                 /\ Cardinality(RowCells(sp.training_matrix, r)) = 1
                 /\ RowCells(sp.holdout_matrix, r) # {}
====
